---------------------------- MODULE Spec2Model ----------------------------
(***************************************************************************)
(* A model of fsds-rs: the FromIntoValue derive (struct <-> Value::Map),   *)
(* the ImageType <-> Value::Integer conversion, and the Quaternionr /      *)
(* Vector3r algebra of src/types.rs.                                       *)
(*                                                                         *)
(* The library is a set of pure functions.  The state machine applies them *)
(* to inputs drawn from bounded sets: a caller encodes a record, the       *)
(* simulator's reply (any Value built from an encoding by a few edits)     *)
(* arrives on the wire, the caller decodes the wire; and the algebra       *)
(* operations are applied to small quaternions.                            *)
(*                                                                         *)
(* f64 values are modelled exactly, as reduced fractions n/d (d > 0), with *)
(* d = 0 for the IEEE specials: 0/0 is NaN, 1/0 is +inf, -1/0 is -inf.     *)
(* Rounding, underflow and the sign of zero are not modelled.              *)
(***************************************************************************)
EXTENDS Integers, Sequences, FiniteSets, TLC

VARIABLES
    typ,    \* the struct the caller is encoding / decoding
    rec,    \* the record the caller encoded (NoRec when the wire is a reply)
    wire,   \* the Value on the channel
    edits,  \* number of edits that made the reply differ from an encoding
    out,    \* result of the last TryFrom<Value> for typ (NoResult before)
    op,     \* last enumeration / algebra operation applied
    arg,    \* its operands
    res     \* its result

vars == <<typ, rec, wire, edits, out, op, arg, res>>

-----------------------------------------------------------------------------
(* Bounds of the model.                                                    *)

\* how many sample values of each primitive type the records are built from
NSamples == 2
\* edits (drop, insert, replace, swap) applied to an encoding to get a reply
MaxEdits == 2
\* quaternion and vector components range over -MaxComp .. MaxComp
MaxComp == 2
\* wire integers offered to the ImageType decoder range over -MaxTag .. MaxTag
MaxTag == 9
\* the longest Map taken in every order of its entries
MaxPermLen == 4

-----------------------------------------------------------------------------
(* f64 *)

Abs(i) == IF i < 0 THEN -i ELSE i

RECURSIVE Gcd(_, _)
Gcd(a, b) == IF b = 0 THEN a ELSE Gcd(b, a % b)

Sign(i) == IF i > 0 THEN 1 ELSE IF i < 0 THEN -1 ELSE 0

\* the f64 n/d, reduced; d = 0 gives NaN (n = 0) or an infinity
Frac(n, d) ==
    IF d = 0 THEN [n |-> Sign(n), d |-> 0, root |-> 1]
    ELSE LET g == Gcd(Abs(n), Abs(d))
             s == IF d < 0 THEN -1 ELSE 1
         IN  [n |-> (s * n) \div g, d |-> (s * d) \div g, root |-> 1]

F(i) == [n |-> i, d |-> 1, root |-> 1]

NaN == [n |-> 0, d |-> 0, root |-> 1]

IsNaN(a) == a.d = 0 /\ a.n = 0
IsInf(a) == a.d = 0 /\ a.n # 0
IsFinite(a) == a.d # 0

\* a + b
FAdd(a, b) ==
    IF IsNaN(a) \/ IsNaN(b) THEN NaN
    ELSE IF IsInf(a) /\ IsInf(b) THEN (IF a.n = b.n THEN a ELSE NaN)
    ELSE IF IsInf(a) THEN a
    ELSE IF IsInf(b) THEN b
    ELSE Frac(a.n * b.d + b.n * a.d, a.d * b.d)

\* -a
FNeg(a) == [n |-> -a.n, d |-> a.d, root |-> a.root]

\* a - b
FSub(a, b) == FAdd(a, FNeg(b))

\* a * b
FMul(a, b) ==
    IF IsNaN(a) \/ IsNaN(b) THEN NaN
    ELSE IF IsInf(a) \/ IsInf(b) THEN Frac(Sign(a.n) * Sign(b.n), 0)
    ELSE Frac(a.n * b.n, a.d * b.d)

\* a / b
FDiv(a, b) ==
    IF IsNaN(a) \/ IsNaN(b) THEN NaN
    ELSE IF IsInf(a) THEN (IF IsInf(b) THEN NaN
                           ELSE Frac(a.n * (IF b.n < 0 THEN -1 ELSE 1), 0))
    ELSE IF IsInf(b) THEN F(0)
    ELSE IF b.n = 0 THEN Frac(Sign(a.n), 0)
    ELSE Frac(a.n * b.d, a.d * b.n)

\* a == b on f64: NaN equals nothing
FEq(a, b) == ~IsNaN(a) /\ ~IsNaN(b) /\ a = b

IsSquare(i) == \E k \in 0..i : k * k = i
IntSqrt(i) == CHOOSE k \in 0..i : k * k = i

\* a.sqrt(): exact when a is the square of a fraction; otherwise the
\* irrational root of n/d is kept symbolically (root |-> 2): it equals no
\* fraction, and no arithmetic is done on it
FSqrt(a) ==
    IF IsNaN(a) \/ (a.d # 0 /\ a.n < 0) \/ (a.d = 0 /\ a.n < 0) THEN NaN
    ELSE IF IsInf(a) THEN a
    ELSE IF IsSquare(a.n) /\ IsSquare(a.d)
         THEN [n |-> IntSqrt(a.n), d |-> IntSqrt(a.d), root |-> 1]
         ELSE [n |-> a.n, d |-> a.d, root |-> 2]

\* a.powi(2)
FSq(a) == FMul(a, a)

-----------------------------------------------------------------------------
(* msgpack_rpc::Value.  Every value is [t |-> variant, v |-> payload].     *)

Nil == [t |-> "Nil", v |-> 0]
VBool(b) == [t |-> "Boolean", v |-> b]
VInt(i) == [t |-> "Integer", v |-> i]
VF64(x) == [t |-> "F64", v |-> x]
VStr(s) == [t |-> "String", v |-> s]
VBin(b) == [t |-> "Binary", v |-> b]
VArr(a) == [t |-> "Array", v |-> a]
\* a Map is a sequence of entries [k |-> key Value, v |-> Value]
VMap(m) == [t |-> "Map", v |-> m]

\* the results of the fallible operations
Ok(x) == [kind |-> "Ok", val |-> x]
\* an anyhow::Error: the message's format string and its arguments
Err(m, a) == [kind |-> "Err", val |-> [msg |-> m, what |-> a]]
\* the thread panicked
Panic == [kind |-> "Panic", val |-> "called Option::unwrap() on a None value"]

-----------------------------------------------------------------------------
(* ImageType *)

\* the variants in declaration order
ImageTypeVariants ==
    << "Scene", "DepthPlanner", "DepthPerspective", "DepthVis",
       "DisparityNormalized", "Segmentation", "SurfaceNormals", "Infrared" >>

ImageTypes == {ImageTypeVariants[i] : i \in 1..Len(ImageTypeVariants)}

\* value as u64: the discriminant written in the enum
ImageTypeAsU64(e) ==
    CASE e = "Scene" -> 0
      [] e = "DepthPlanner" -> 1
      [] e = "DepthPerspective" -> 2
      [] e = "DepthVis" -> 3
      [] e = "DisparityNormalized" -> 4
      [] e = "Segmentation" -> 5
      [] e = "SurfaceNormals" -> 6
      [] e = "Infrared" -> 7

\* impl From<ImageType> for Value
ValueFromImageType(e) == VInt(ImageTypeAsU64(e))

InvalidImageType == Err("Invalid ImageType", <<>>)

\* a mutant of ImageTypeMatch: two arms exchanged
ImageTypeMatchExchanged(u) ==
    CASE u = 0 -> Ok("Scene")
      [] u = 1 -> Ok("DepthPlanner")
      [] u = 2 -> Ok("DepthVis")
      [] u = 3 -> Ok("DepthPerspective")
      [] u = 4 -> Ok("DisparityNormalized")
      [] u = 5 -> Ok("Segmentation")
      [] u = 6 -> Ok("SurfaceNormals")
      [] u = 7 -> Ok("Infrared")
      [] OTHER -> InvalidImageType

\* the match on value.as_u64().unwrap()
ImageTypeMatch(u) ==
    CASE u = 0 -> Ok("Scene")
      [] u = 1 -> Ok("DepthPlanner")
      [] u = 2 -> Ok("DepthPerspective")
      [] u = 3 -> Ok("DepthVis")
      [] u = 4 -> Ok("DisparityNormalized")
      [] u = 5 -> Ok("Segmentation")
      [] u = 6 -> Ok("SurfaceNormals")
      [] u = 7 -> Ok("Infrared")
      [] OTHER -> InvalidImageType

\* impl TryFrom<Value> for ImageType.  Integer::as_u64 is None for a
\* negative integer, and the unwrap then panics.
ImageTypeTryFrom(v) ==
    IF v.t = "Integer"
    THEN (IF v.v < 0 THEN Panic ELSE ImageTypeMatch(v.v))
    ELSE InvalidImageType

-----------------------------------------------------------------------------
(* The structs of src/types.rs: each a sequence of <<field, type>>.        *)

Fields(T) ==
    CASE T = "Vector3r" ->
            << <<"x_val", "f64">>, <<"y_val", "f64">>, <<"z_val", "f64">> >>
      [] T = "Quaternionr" ->
            << <<"w_val", "f64">>, <<"x_val", "f64">>, <<"y_val", "f64">>,
               <<"z_val", "f64">> >>
      [] T = "Pose" ->
            << <<"position", "Vector3r">>, <<"orientation", "Quaternionr">> >>
      [] T = "GeoPoint" ->
            << <<"latitude", "f64">>, <<"longitude", "f64">>,
               <<"altitude", "f64">> >>
      [] T = "ImageRequest" ->
            << <<"camera_name", "String">>, <<"image_type", "ImageType">>,
               <<"pixels_as_float", "bool">>, <<"compress", "bool">> >>
      [] T = "ImageResponse" ->
            << <<"image_data_uint8", "u64">>, <<"image_data_float", "f64">>,
               <<"camera_position", "Vector3r">>,
               <<"camera_orientation", "Quaternionr">>,
               <<"timestamp", "u64">>, <<"message", "String">>,
               <<"pixels_as_float", "f64">>, <<"compress", "bool">>,
               <<"width", "u64">>, <<"height", "u64">>,
               <<"image_type", "ImageType">> >>
      [] T = "CarControls" ->
            << <<"throttle", "f64">>, <<"steering", "f64">>,
               <<"brake", "f64">>, <<"handbrake", "bool">>,
               <<"is_manual_gear", "bool">>, <<"manual_gear", "u64">>,
               <<"gear_immediate", "bool">> >>
      [] T = "KinematicsState" ->
            << <<"position", "Vector3r">>, <<"orientation", "Quaternionr">>,
               <<"linear_velocity", "Vector3r">>,
               <<"angular_velocity", "Vector3r">>,
               <<"linear_acceleration", "Vector3r">>,
               <<"angular_acceleration", "Vector3r">> >>
      [] T = "EnvironmentState" ->
            << <<"position", "Vector3r">>, <<"geo_point", "GeoPoint">>,
               <<"gravity", "Vector3r">>, <<"air_pressure", "f64">>,
               <<"temperature", "f64">>, <<"air_density", "f64">> >>
      [] T = "CollisionInfo" ->
            << <<"has_collided", "bool">>, <<"normal", "Vector3r">>,
               <<"impact_point", "Vector3r">>, <<"position", "Vector3r">>,
               <<"penetration_depth", "f64">>, <<"timestamp", "f64">>,
               <<"object_name", "String">>, <<"object_id", "u64">> >>
      [] T = "CarState" ->
            << <<"speed", "f64">>,
               <<"kinematics_estimated", "KinematicsState">>,
               <<"timestamp", "u64">> >>
      [] T = "Position2D" ->
            << <<"x_val", "f64">>, <<"y_val", "f64">> >>
      [] T = "RefereeState" ->
            << <<"doo_counter", "u64">>, <<"laps", "f64">>,
               <<"initial_position", "Position2D">>,
               <<"cones", "Vec<Position2D>">> >>

\* the structs carrying #[derive(FromIntoValue)]
Derives ==
    { "Vector3r", "Quaternionr", "Pose", "GeoPoint", "ImageRequest",
      "ImageResponse", "CarControls", "KinematicsState", "EnvironmentState",
      "CollisionInfo", "CarState", "Position2D" }

\* every struct of the catalog
Structs == Derives \cup {"RefereeState"}

FieldName(T, i) == Fields(T)[i][1]
FieldType(T, i) == Fields(T)[i][2]
NFields(T) == Len(Fields(T))
FieldNames(T) == {FieldName(T, i) : i \in 1..NFields(T)}
TypeOf(T, f) ==
    FieldType(T, CHOOSE i \in 1..NFields(T) : FieldName(T, i) = f)

-----------------------------------------------------------------------------
(* The values the records of the model are built from.                     *)

F64Samples == << F(0), F(1), NaN, F(-1), Frac(1, 2) >>
StringSamples == << "0", "", "cam1", "left" >>

Pick(list, k) == list[(k % Len(list)) + 1]

\* the k-th sample value of a field type; a struct's k-th sample has the
\* k-th sample in every field
RECURSIVE Sample(_, _)
Sample(ty, k) ==
    CASE ty = "f64" -> Pick(F64Samples, k)
      [] ty = "u64" -> k
      [] ty = "bool" -> (k % 2 = 1)
      [] ty = "String" -> Pick(StringSamples, k)
      [] ty = "ImageType" -> Pick(ImageTypeVariants, k)
      [] ty = "Vec<Position2D>" -> [i \in 1..k |-> Sample("Position2D", i)]
      [] OTHER -> [f \in FieldNames(ty) |-> Sample(TypeOf(ty, f), k)]

SampleIndex == 0..(NSamples - 1)

\* the records of struct T a caller constructs: the fields in S take their
\* j-th sample and the others their k-th
Records(T) ==
    { [f \in FieldNames(T) |->
          Sample(TypeOf(T, f), IF f \in S THEN j ELSE k)] :
      k \in SampleIndex, j \in SampleIndex, S \in SUBSET FieldNames(T) }

\* a record of T whose fields all differ: field i has sample k + i
Distinct(T, k) ==
    [f \in FieldNames(T) |->
        Sample(TypeOf(T, f),
               k + (CHOOSE i \in 1..NFields(T) : FieldName(T, i) = f))]

\* the orders a Map of n entries arrives in: every order of up to
\* MaxPermLen entries; of more, the rotations, each also backwards
Orders(n) ==
    IF n <= MaxPermLen
    THEN {p \in [1..n -> 1..n] : \A i, j \in 1..n : p[i] = p[j] => i = j}
    ELSE {[i \in 1..n |-> ((i + s - 1) % n) + 1] : s \in 0..(n - 1)}
         \cup {[i \in 1..n |-> ((n - i + s) % n) + 1] : s \in 0..(n - 1)}

-----------------------------------------------------------------------------
(* #[derive(FromIntoValue)]: From<#struct> for Value *)

\* no impl of the conversion exists for this type (the call does not build)
Unimplemented(ty) == [kind |-> "Unimplemented", val |-> ty]

RECURSIVE FromStruct(_, _)

\* value.#field_name.into()
IntoValue(ty, x) ==
    CASE ty = "f64" -> VF64(x)
      [] ty = "u64" -> VInt(x)
      [] ty = "bool" -> VBool(x)
      [] ty = "String" -> VStr(x)
      [] ty = "ImageType" -> ValueFromImageType(x)
      [] ty \in Derives -> FromStruct(ty, x)

\* a mutant of FromStruct: the entries are pushed in reverse
FromStructReversed(T, r) ==
    VMap([i \in 1..NFields(T) |->
            [k |-> VStr(FieldName(T, NFields(T) + 1 - i)),
             v |-> IntoValue(FieldType(T, NFields(T) + 1 - i),
                             r[FieldName(T, NFields(T) + 1 - i)])]])

\* vec.push((stringify!(#field_name).into(), value.#field_name.into()))
\* for each field in declaration order, then Value::Map(vec)
FromStruct(T, r) ==
    VMap([i \in 1..NFields(T) |->
            [k |-> VStr(FieldName(T, i)),
             v |-> IntoValue(FieldType(T, i), r[FieldName(T, i)])]])

\* Value::from(record), for any struct of the catalog
ValueFrom(T, r) ==
    IF T \in Derives THEN FromStruct(T, r) ELSE Unimplemented(T)

-----------------------------------------------------------------------------
(* #[derive(FromIntoValue)]: TryFrom<Value> for #struct *)

\* k.as_str().unwrap_or(..): the key's text, or the fallback text for a key
\* that is not a String
KeyStr(k) ==
    IF k.t = "String" THEN k.v
    ELSE "Value::Map should contain only String keys to be converted to a struct."

\* a mutant of Position: the fields are taken in the order they arrive
PositionByOrder(m, name) == IF Len(m) > 0 THEN 1 ELSE 0

\* map.iter().position(|(k, _)| k.as_str().unwrap_or(..) == name):
\* the first entry with that key, 0 for None
Position(m, name) ==
    IF \E i \in 1..Len(m) : KeyStr(m[i].k) = name
    THEN CHOOSE i \in 1..Len(m) :
            /\ KeyStr(m[i].k) = name
            /\ \A j \in 1..(i - 1) : KeyStr(m[j].k) # name
    ELSE 0

\* a mutant of Remove: the matched entry stays in the map
RemoveNothing(m, pos) == m

\* a mutant of Remove: the head of the map goes, whichever entry matched
RemoveFirst(m, pos) == [i \in 1..(Len(m) - 1) |-> m[i + 1]]

\* map.remove(pos): the map without its entry at pos
Remove(m, pos) ==
    [i \in 1..(Len(m) - 1) |-> IF i < pos THEN m[i] ELSE m[i + 1]]

FieldNotFound(name) == Err("Field {} not found in Value::Map.", <<name>>)
NotConvertible(T) ==
    Err("Every field of {} should be convertible to Value.", <<T>>)
ExtraFields(m) == Err("Value::Map contains extra fields: {:?}", <<m>>)
ShouldBeAMap(T) ==
    Err("Value should be a Map to be converted to {}", <<T>>)

\* the error of a failed TryFrom of the Value library: the value is handed back
Rejected(v) == [kind |-> "Err", val |-> v]

\* TryFrom<Value> for f64, u64, bool and String
PrimTryFrom(ty, v) ==
    CASE ty = "f64" ->
            (CASE v.t = "F64" -> Ok(v.v)
               [] v.t = "Integer" -> Ok(F(v.v))
               [] OTHER -> Rejected(v))
      [] ty = "u64" ->
            (IF v.t = "Integer" /\ v.v >= 0 THEN Ok(v.v) ELSE Rejected(v))
      [] ty = "bool" ->
            (IF v.t = "Boolean" THEN Ok(v.v) ELSE Rejected(v))
      [] ty = "String" ->
            (IF v.t = "String" THEN Ok(v.v) ELSE Rejected(v))

\* a mutant of Assemble: the leftover entries are not looked at
AssembleUnchecked(T, map, got) ==
    Ok([f \in FieldNames(T) |->
          got[CHOOSE j \in 1..NFields(T) : FieldName(T, j) = f]])

\* if map.is_empty() { Ok(#name { fields }) } else { Err(extra fields) }
Assemble(T, map, got) ==
    IF map = <<>>
    THEN Ok([f \in FieldNames(T) |->
               got[CHOOSE j \in 1..NFields(T) : FieldName(T, j) = f]])
    ELSE ExtraFields(map)

RECURSIVE TryFromFields(_, _, _, _)

\* a mutant of TryFrom: a Value that is not a Map is read as an empty Map
TryFromAnyValue(T, value) ==
    TryFromFields(T, 1, IF value.t = "Map" THEN value.v ELSE <<>>, <<>>)

\* fn try_from(value: Value) -> Result<#name, anyhow::Error>
TryFrom(T, value) ==
    IF value.t = "Map"
    THEN TryFromFields(T, 1, value.v, <<>>)
    ELSE ShouldBeAMap(T)

\* .try_into() of a field's value
TryInto(ty, v) ==
    CASE ty \in {"f64", "u64", "bool", "String"} -> PrimTryFrom(ty, v)
      [] ty = "ImageType" -> ImageTypeTryFrom(v)
      [] ty \in Derives -> TryFrom(ty, v)

\* the statements generated for the fields i.. of T, on the working map
\* `map`, with the fields before i already bound to `got`; then the check
\* that the map is empty
TryFromFields(T, i, map, got) ==
    IF i > NFields(T)
    THEN Assemble(T, map, got)
    ELSE LET pos == Position(map, FieldName(T, i))
         IN  IF pos = 0
             THEN FieldNotFound(FieldName(T, i))
             ELSE LET conv == TryInto(FieldType(T, i), map[pos].v)
                  IN  CASE conv.kind = "Panic" -> Panic
                        [] conv.kind = "Err" -> NotConvertible(T)
                        [] conv.kind = "Ok" ->
                             TryFromFields(T, i + 1, Remove(map, pos),
                                           Append(got, conv.val))

\* T::try_from(value), for any struct of the catalog
TryFromValue(T, value) ==
    IF T \in Derives THEN TryFrom(T, value) ELSE Unimplemented(T)

-----------------------------------------------------------------------------
(* Quaternionr and Vector3r.  A quaternion is the record of its struct:    *)
(* [w_val, x_val, y_val, z_val]; a vector is [x_val, y_val, z_val].        *)

Quat(w, x, y, z) == [w_val |-> w, x_val |-> x, y_val |-> y, z_val |-> z]
Vec3(x, y, z) == [x_val |-> x, y_val |-> y, z_val |-> z]

\* a value returned by an infallible function
Ret(x) == [kind |-> "Value", val |-> x]

\* Quaternionr::dot
dot(self, other) ==
    FAdd(FAdd(FAdd(FMul(self.w_val, other.w_val),
                   FMul(self.x_val, other.x_val)),
              FMul(self.y_val, other.y_val)),
         FMul(self.z_val, other.z_val))

\* Quaternionr::conjugate
conjugate(self) ==
    Quat(self.w_val, FNeg(self.x_val), FNeg(self.y_val), FNeg(self.z_val))

\* Quaternionr::star
star(self) == conjugate(self)

\* impl DivAssign<f64> for Quaternionr
div_assign(self, other) ==
    Quat(FDiv(self.w_val, other), FDiv(self.x_val, other),
         FDiv(self.y_val, other), FDiv(self.z_val, other))

\* Quaternionr::inverse
inverse(self) == div_assign(star(self), dot(self, self))

\* Quaternionr::get_length
get_length(self) ==
    FSqrt(FAdd(FAdd(FAdd(FSq(self.w_val), FSq(self.x_val)), FSq(self.y_val)),
               FSq(self.z_val)))

\* Quaternionr::sgn
sgn(self) == div_assign(self, get_length(self))

\* a mutant of mul: a sign slip in z_val
mulSignSlip(self, other) ==
    LET t == self.w_val
        x == self.x_val
        y == self.y_val
        z == self.z_val
        a == other.w_val
        b == other.x_val
        c == other.y_val
        d == other.z_val
    IN  Quat(FSub(FSub(FSub(FMul(a, t), FMul(b, x)), FMul(c, y)), FMul(d, z)),
             FSub(FAdd(FAdd(FMul(b, t), FMul(a, x)), FMul(d, y)), FMul(c, z)),
             FSub(FAdd(FAdd(FMul(c, t), FMul(a, y)), FMul(b, z)), FMul(d, x)),
             FAdd(FSub(FAdd(FMul(d, t), FMul(z, a)), FMul(c, x)), FMul(b, y)))

\* a mutant of mul: the operands exchanged
mulExchanged(self, other) ==
    LET t == other.w_val
        x == other.x_val
        y == other.y_val
        z == other.z_val
        a == self.w_val
        b == self.x_val
        c == self.y_val
        d == self.z_val
    IN  Quat(FSub(FSub(FSub(FMul(a, t), FMul(b, x)), FMul(c, y)), FMul(d, z)),
             FSub(FAdd(FAdd(FMul(b, t), FMul(a, x)), FMul(d, y)), FMul(c, z)),
             FSub(FAdd(FAdd(FMul(c, t), FMul(a, y)), FMul(b, z)), FMul(d, x)),
             FSub(FAdd(FAdd(FMul(d, t), FMul(z, a)), FMul(c, x)), FMul(b, y)))

\* impl Mul for Quaternionr
mul(self, other) ==
    LET t == self.w_val
        x == self.x_val
        y == self.y_val
        z == self.z_val
        a == other.w_val
        b == other.x_val
        c == other.y_val
        d == other.z_val
    IN  Quat(FSub(FSub(FSub(FMul(a, t), FMul(b, x)), FMul(c, y)), FMul(d, z)),
             FSub(FAdd(FAdd(FMul(b, t), FMul(a, x)), FMul(d, y)), FMul(c, z)),
             FSub(FAdd(FAdd(FMul(c, t), FMul(a, y)), FMul(b, z)), FMul(d, x)),
             FSub(FAdd(FAdd(FMul(d, t), FMul(z, a)), FMul(c, x)), FMul(b, y)))

NotNormalized == Err("Quaternion is not normalized", <<>>)

\* Quaternionr::rotate
rotate(self, other) ==
    IF FEq(get_length(other), F(1))
    THEN Ok(mul(mul(other, self), inverse(other)))
    ELSE NotNormalized

\* impl From<Vector3r> for Quaternionr
QuaternionrFrom(value) ==
    Quat(value.x_val, value.y_val, value.z_val, F(0))

Comps == {F(i) : i \in (-MaxComp)..MaxComp}
Bits == {F(0), F(1)}

\* the quaternions and vectors the operations are applied to
Quats == {Quat(w, x, y, z) : w \in Comps, x \in Comps, y \in Comps, z \in Comps}
\* the quaternions that are rotated: components 0 or 1
SmallQuats ==
    {Quat(w, x, y, z) : w \in Bits, x \in Bits, y \in Bits, z \in Bits}
Halves == {Frac(-1, 2), Frac(1, 2)}
\* the rotors: the quaternions above and the 16 unit quaternions with
\* components +-1/2 (rotations by a third of a turn)
Rotors ==
    Quats \cup
    {Quat(w, x, y, z) : w \in Halves, x \in Halves, y \in Halves, z \in Halves}
Vecs == {Vec3(x, y, z) : x \in Comps, y \in Comps, z \in Comps}
\* the left operands of a product: components 0 or 1, or NaN in all of them
LeftQuats == SmallQuats \cup {Quat(NaN, NaN, NaN, NaN)}

-----------------------------------------------------------------------------
(* Default values and the NaN constructors.                                *)

\* the structs carrying #[derive(Default)]
DerivesDefault ==
    { "Vector3r", "Quaternionr", "Pose", "GeoPoint", "KinematicsState",
      "EnvironmentState", "Position2D", "RefereeState" }

\* the structs with a Default, derived or written out
Defaults == DerivesDefault \cup {"ImageRequest", "ImageResponse", "CarControls"}

\* Default::default() of a field type: 0.0, 0, false, "", an empty Vec, and
\* for a struct with #[derive(Default)] the default of every field
RECURSIVE DeriveDefault(_)
DeriveDefault(ty) ==
    CASE ty = "f64" -> F(0)
      [] ty = "u64" -> 0
      [] ty = "bool" -> FALSE
      [] ty = "String" -> ""
      [] ty = "Vec<Position2D>" -> <<>>
      [] OTHER -> [f \in FieldNames(ty) |-> DeriveDefault(TypeOf(ty, f))]

\* T::default()
Default(T) ==
    CASE T = "ImageRequest" ->
            [camera_name |-> "0", image_type |-> "Scene",
             pixels_as_float |-> FALSE, compress |-> FALSE]
      [] T = "ImageResponse" ->
            [image_data_uint8 |-> 0, image_data_float |-> F(0),
             camera_position |-> DeriveDefault("Vector3r"),
             camera_orientation |-> DeriveDefault("Quaternionr"),
             timestamp |-> 0, message |-> "", pixels_as_float |-> F(0),
             compress |-> TRUE, width |-> 0, height |-> 0,
             image_type |-> "Scene"]
      [] T = "CarControls" ->
            [throttle |-> DeriveDefault("f64"),
             steering |-> DeriveDefault("f64"),
             brake |-> DeriveDefault("f64"), handbrake |-> FALSE,
             is_manual_gear |-> FALSE, manual_gear |-> DeriveDefault("u64"),
             gear_immediate |-> TRUE]
      [] OTHER -> DeriveDefault(T)

\* Vector3r::nan_vector3r
nan_vector3r == Vec3(NaN, NaN, NaN)

\* Quaternionr::nan_quaternionr
nan_quaternionr == Quat(NaN, NaN, NaN, NaN)

\* Pose::nan_pose
nan_pose == [position |-> nan_vector3r, orientation |-> nan_quaternionr]

\* Option<T>
None == [some |-> FALSE]
Some(x) == [some |-> TRUE, val |-> x]

\* Option::unwrap_or
unwrap_or(o, x) == IF o.some THEN o.val ELSE x

\* Pose::new
PoseNew(position_val, orientation_val) ==
    [position |-> unwrap_or(position_val, nan_vector3r),
     orientation |-> unwrap_or(orientation_val, nan_quaternionr)]

\* the constructors of the NaN values
NanConstructors ==
    [Vector3r |-> nan_vector3r, Quaternionr |-> nan_quaternionr,
     Pose |-> nan_pose]

\* the arguments given to Pose::new
PositionArgs == {None} \cup {Some(Vec3(x, y, z)) : x \in Bits, y \in Bits, z \in Bits}
OrientationArgs == {None} \cup {Some(q) : q \in SmallQuats}

-----------------------------------------------------------------------------
(* The state machine.                                                      *)

NoRec == [none |-> TRUE]
NoResult == [kind |-> "None", val |-> 0]

Init ==
    /\ typ = "none"
    /\ rec = NoRec
    /\ wire = Nil
    /\ edits = 0
    /\ out = NoResult
    /\ op = "none"
    /\ arg = <<>>
    /\ res = NoResult

\* no call is in progress
Idle == typ = "none" /\ op = "none"

CodecIdle ==
    /\ typ' = "none"
    /\ rec' = NoRec
    /\ wire' = Nil
    /\ edits' = 0
    /\ out' = NoResult

AlgebraIdle ==
    /\ op' = "none"
    /\ arg' = <<>>
    /\ res' = NoResult

\* the caller builds a record r of struct T and converts it: Value::from(r)
Encode ==
    /\ Idle
    /\ \E T \in Structs : \E r \in Records(T) :
          /\ typ' = T
          /\ rec' = r
          /\ wire' = ValueFrom(T, r)
          /\ edits' = 0
          /\ out' = NoResult
          /\ AlgebraIdle

\* the simulator replies with the Map of a T
Receive ==
    /\ Idle
    /\ \E T \in Derives : \E k \in SampleIndex :
          /\ typ' = T
          /\ rec' = NoRec
          /\ wire' = FromStruct(T, Sample(T, k))
          /\ edits' = 0
          /\ out' = NoResult
          /\ AlgebraIdle

\* the simulator replies with the entries of the Map of a T in any order,
\* and the reply is otherwise the encoding: no edit follows
ReceivePermuted ==
    /\ Idle
    /\ \E T \in Derives : \E k \in SampleIndex : \E p \in Orders(NFields(T)) :
          LET m == FromStruct(T, Distinct(T, k)).v
          IN  /\ typ' = T
              /\ rec' = NoRec
              /\ wire' = VMap([i \in 1..Len(m) |-> m[p[i]]])
              /\ edits' = MaxEdits
              /\ out' = NoResult
              /\ AlgebraIdle

\* Values that are not a Map
NonMaps ==
    { Nil, VBool(TRUE), VInt(0), VF64(F(0)), VStr("x"), VBin(<<>>),
      VArr(<<>>) }

\* the simulator replies with something that is not a Map
ReceiveOther ==
    /\ Idle
    /\ \E T \in Derives : \E v \in NonMaps :
          /\ typ' = T
          /\ rec' = NoRec
          /\ wire' = v
          /\ edits' = 0
          /\ out' = NoResult
          /\ AlgebraIdle

\* the reply may differ from the encoding of a T by a few edits
CanEdit ==
    /\ typ # "none"
    /\ rec = NoRec
    /\ wire.t = "Map"
    /\ edits < MaxEdits
    /\ out = NoResult

Edited(m) ==
    /\ wire' = VMap(m)
    /\ edits' = edits + 1
    /\ UNCHANGED <<typ, rec, out, op, arg, res>>

\* the reply lacks entry i
DropEntry ==
    /\ CanEdit
    /\ \E i \in 1..Len(wire.v) : Edited(Remove(wire.v, i))

\* keys the simulator may add: an undeclared name, the first declared field
\* again, a key that is not a String
ExtraKeys(T) == << VStr("turbo"), VStr(FieldName(T, 1)), VInt(0) >>

\* the value sent under an added key: the declared field's own value for a
\* repeated key, Nil otherwise
ExtraValue(m, key) ==
    IF Position(m, KeyStr(key)) # 0 THEN m[Position(m, KeyStr(key))].v ELSE Nil

\* the reply has one more entry, in front or at the end
InsertEntry ==
    /\ CanEdit
    /\ \E front \in BOOLEAN : \E n \in 1..Len(ExtraKeys(typ)) :
          LET key == ExtraKeys(typ)[n]
              e == [k |-> key, v |-> ExtraValue(wire.v, key)]
          IN  Edited(IF front THEN <<e>> \o wire.v ELSE Append(wire.v, e))

\* values the simulator may send in place of a field's value
OtherValues == << VInt(-1), VInt(9), VMap(<<>>) >>

\* entry i of the reply carries another value
ReplaceValue ==
    /\ CanEdit
    /\ \E i \in 1..Len(wire.v) : \E n \in 1..Len(OtherValues) :
          Edited([wire.v EXCEPT ![i].v = OtherValues[n]])

\* entries i and i + 1 of the reply come in the other order
SwapEntries ==
    /\ CanEdit
    /\ \E i \in 1..(Len(wire.v) - 1) :
          Edited([wire.v EXCEPT ![i] = wire.v[i + 1], ![i + 1] = wire.v[i]])

\* the caller converts the Value on the wire: T::try_from(value)
Decode ==
    /\ typ # "none"
    /\ out = NoResult
    /\ out' = TryFromValue(typ, wire)
    /\ UNCHANGED <<typ, rec, wire, edits, op, arg, res>>

\* Value::from(e) for an ImageType e
ImageTypeInto ==
    /\ Idle
    /\ \E e \in ImageTypes :
          /\ op' = "Value::from(ImageType)"
          /\ arg' = <<e>>
          /\ res' = Ret(ValueFromImageType(e))
          /\ CodecIdle

\* ImageType::try_from of the Value just produced
ImageTypeBack ==
    /\ op = "Value::from(ImageType)"
    /\ op' = "ImageType::try_from(Value::from)"
    /\ arg' = arg
    /\ res' = ImageTypeTryFrom(res.val)
    /\ CodecIdle

\* the Values offered to ImageType::try_from
TagValues ==
    {VInt(i) : i \in (-MaxTag)..MaxTag} \cup {Nil, VStr("Scene"), VF64(F(1))}

\* ImageType::try_from(v)
ImageTypeFrom ==
    /\ Idle
    /\ \E v \in TagValues :
          /\ op' = "ImageType::try_from"
          /\ arg' = <<v>>
          /\ res' = ImageTypeTryFrom(v)
          /\ CodecIdle

\* q.inverse()
Inverse ==
    /\ Idle
    /\ \E q \in Quats :
          /\ op' = "inverse"
          /\ arg' = <<q>>
          /\ res' = Ret(inverse(q))
          /\ CodecIdle

\* q.sgn(), for the q whose length is a fraction
Sgn ==
    /\ Idle
    /\ \E q \in Quats :
          /\ get_length(q).root = 1
          /\ op' = "sgn"
          /\ arg' = <<q>>
          /\ res' = Ret(sgn(q))
          /\ CodecIdle

\* q.rotate(&rotor)
Rotate ==
    /\ Idle
    /\ \E q \in SmallQuats : \E rotor \in Rotors :
          /\ op' = "rotate"
          /\ arg' = <<q, rotor>>
          /\ res' = rotate(q, rotor)
          /\ CodecIdle

\* a * b
Multiply ==
    /\ Idle
    /\ \E a \in LeftQuats : \E b \in Quats :
          /\ op' = "mul"
          /\ arg' = <<a, b>>
          /\ res' = Ret(mul(a, b))
          /\ CodecIdle

\* T::default()
TakeDefault ==
    /\ Idle
    /\ \E T \in Defaults :
          /\ op' = "default"
          /\ arg' = <<T>>
          /\ res' = Ret(Default(T))
          /\ CodecIdle

\* Vector3r::nan_vector3r(), Quaternionr::nan_quaternionr(), Pose::nan_pose()
TakeNan ==
    /\ Idle
    /\ \E T \in DOMAIN NanConstructors :
          /\ op' = "nan"
          /\ arg' = <<T>>
          /\ res' = Ret(NanConstructors[T])
          /\ CodecIdle

\* Pose::new(position_val, orientation_val)
NewPose ==
    /\ Idle
    /\ \E p \in PositionArgs : \E o \in OrientationArgs :
          /\ op' = "Pose::new"
          /\ arg' = <<p, o>>
          /\ res' = Ret(PoseNew(p, o))
          /\ CodecIdle

\* Quaternionr::from(v) for a Vector3r v
FromVector ==
    /\ Idle
    /\ \E v \in Vecs :
          /\ op' = "Quaternionr::from(Vector3r)"
          /\ arg' = <<v>>
          /\ res' = Ret(QuaternionrFrom(v))
          /\ CodecIdle

\* the call is over; the caller goes on to the next one
Return ==
    /\ ~Idle
    /\ CodecIdle
    /\ AlgebraIdle

Next ==
    \/ Encode
    \/ Receive
    \/ ReceivePermuted
    \/ ReceiveOther
    \/ DropEntry
    \/ InsertEntry
    \/ ReplaceValue
    \/ SwapEntries
    \/ Decode
    \/ ImageTypeInto
    \/ ImageTypeBack
    \/ ImageTypeFrom
    \/ Inverse
    \/ Sgn
    \/ Rotate
    \/ Multiply
    \/ TakeDefault
    \/ TakeNan
    \/ NewPose
    \/ FromVector
    \/ Return

Spec == Init /\ [][Next]_vars

-----------------------------------------------------------------------------
(* What the error kinds of the specification are in the code: the anyhow   *)
(* messages.                                                               *)

IsFieldMissing(r) ==
    r.kind = "Err" /\ r.val.msg = "Field {} not found in Value::Map."
IsFieldTypeMismatch(r) ==
    r.kind = "Err"
    /\ r.val.msg = "Every field of {} should be convertible to Value."
IsExtraFieldsPresent(r) ==
    r.kind = "Err" /\ r.val.msg = "Value::Map contains extra fields: {:?}"
IsInvalidEnumTag(r) == r.kind = "Err" /\ r.val.msg = "Invalid ImageType"
IsQuaternionNotNormalized(r) ==
    r.kind = "Err" /\ r.val.msg = "Quaternion is not normalized"

\* a caller's record of a struct with the derive has been encoded
Encoded == typ \in Derives /\ rec # NoRec
\* a Map has been decoded into a struct with the derive
DecodedMap == typ \in Derives /\ wire.t = "Map" /\ out # NoResult

\* the declared fields of T that no entry of m is keyed by
Missing(T, m) ==
    {f \in FieldNames(T) : \A i \in 1..Len(m) : m[i].k # VStr(f)}

\* entry i of m is keyed by a declared field of T
Declared(T, m, i) == \E f \in FieldNames(T) : m[i].k = VStr(f)

\* every entry of m keyed by a declared field of T converts to its type
WellTyped(T, m) ==
    \A i \in 1..Len(m) : \A j \in 1..NFields(T) :
        m[i].k = VStr(FieldName(T, j)) =>
            TryInto(FieldType(T, j), m[i].v).kind = "Ok"

\* the keys of the entries of m in order
Keys(m) == [i \in 1..Len(m) |-> m[i].k]

\* entry i of m is not the first entry of a declared field
IsExtra(T, m, i) ==
    ~Declared(T, m, i) \/ \E j \in 1..(i - 1) : m[j].k = m[i].k

RECURSIVE ExtraKeysOf(_, _, _)
\* the keys of the entries i.. of m that are not the first entry of a
\* declared field, in order
ExtraKeysOf(T, m, i) ==
    IF i > Len(m) THEN <<>>
    ELSE (IF IsExtra(T, m, i) THEN <<m[i].k>> ELSE <<>>)
         \o ExtraKeysOf(T, m, i + 1)

-----------------------------------------------------------------------------
(* C1 *)

\* C1 as stated: for every struct of the catalog, RefereeState included,
\* decoding the encoding of a record r succeeds and yields r.
RoundTripEveryStruct == (rec # NoRec /\ out # NoResult) => out = Ok(rec)

\* C1, amended: for every struct that derives FromIntoValue (all of the
\* catalog but RefereeState, which has no conversion to or from Value) and
\* every record r of it, decoding the Value produced by encoding r succeeds
\* and yields a record equal to r field by field (each f64 field is the
\* same value, a NaN field a NaN).
RoundTripDerived == (Encoded /\ out # NoResult) => out = Ok(rec)

\* a CarState, with its nested KinematicsState, has come back from the wire
RoundTripWitness ==
    /\ typ = "CarState"
    /\ rec # NoRec
    /\ rec.timestamp = 1
    /\ out = Ok(rec)

-----------------------------------------------------------------------------
(* C2 *)

CarControlsExample ==
    [throttle |-> F(1), steering |-> F(0), brake |-> F(0),
     handbrake |-> FALSE, is_manual_gear |-> FALSE, manual_gear |-> 0,
     gear_immediate |-> TRUE]

CarControlsExampleMap ==
    VMap(<< [k |-> VStr("throttle"), v |-> VF64(F(1))],
            [k |-> VStr("steering"), v |-> VF64(F(0))],
            [k |-> VStr("brake"), v |-> VF64(F(0))],
            [k |-> VStr("handbrake"), v |-> VBool(FALSE)],
            [k |-> VStr("is_manual_gear"), v |-> VBool(FALSE)],
            [k |-> VStr("manual_gear"), v |-> VInt(0)],
            [k |-> VStr("gear_immediate"), v |-> VBool(TRUE)] >>)

\* C2: the encoding of a record is a Map with exactly one entry per declared
\* field, keyed by the field's name, in declaration order, each carrying the
\* field's value; and the CarControls of the example encodes to the 7 entries
\* throttle, steering, brake, handbrake, is_manual_gear, manual_gear,
\* gear_immediate with its values.
EncodeOneEntryPerField ==
    Encoded =>
        /\ wire.t = "Map"
        /\ Len(wire.v) = NFields(typ)
        /\ \A i \in 1..NFields(typ) :
              /\ wire.v[i].k = VStr(FieldName(typ, i))
              /\ TryInto(FieldType(typ, i), wire.v[i].v)
                    = Ok(rec[FieldName(typ, i)])
        /\ (typ = "CarControls" /\ rec = CarControlsExample
                => wire = CarControlsExampleMap)

\* the CarControls of the example has been encoded
EncodeExampleWitness ==
    /\ typ = "CarControls"
    /\ rec = CarControlsExample
    /\ Len(wire.v) = 7

-----------------------------------------------------------------------------
(* C3 *)

\* C3: decoding a Map that lacks declared fields, its entries for declared
\* fields being well-typed, fails with the field-not-found error naming a
\* field that is absent; when one field is absent, that one.
MissingFieldNamed ==
    (DecodedMap /\ WellTyped(typ, wire.v) /\ Missing(typ, wire.v) # {}) =>
        /\ IsFieldMissing(out)
        /\ Len(out.val.what) = 1
        /\ out.val.what[1] \in Missing(typ, wire.v)

\* a CarControls map without brake was rejected, naming brake
MissingFieldWitness ==
    /\ typ = "CarControls"
    /\ DecodedMap
    /\ WellTyped(typ, wire.v)
    /\ Missing(typ, wire.v) = {"brake"}
    /\ out = FieldNotFound("brake")

-----------------------------------------------------------------------------
(* C4 *)

\* C4: decoding a Map that has every declared field, well-typed, and more
\* entries (undeclared keys, or a declared key again) fails with the
\* extra-fields error, which lists exactly the entries left over: their
\* keys are the keys that are not the first entry of a declared field.
ExtraFieldsListed ==
    (/\ DecodedMap
     /\ WellTyped(typ, wire.v)
     /\ Missing(typ, wire.v) = {}
     /\ Len(wire.v) > NFields(typ)) =>
        /\ IsExtraFieldsPresent(out)
        /\ Len(out.val.what) = 1
        /\ Keys(out.val.what[1]) = ExtraKeysOf(typ, wire.v, 1)

\* a Map with every field, a second entry of the first field and the key
\* "turbo" was rejected, listing those two
ExtraFieldsWitness ==
    /\ typ = "CarControls"
    /\ DecodedMap
    /\ IsExtraFieldsPresent(out)
    /\ Keys(out.val.what[1]) = << VStr("throttle"), VStr("turbo") >>

-----------------------------------------------------------------------------
(* C5 *)

\* C5: decoding a Map that has every declared field once and nothing else,
\* one of them with a value that does not convert to the field's type,
\* fails with the type-mismatch error.
TypeMismatchReported ==
    (/\ DecodedMap
     /\ Missing(typ, wire.v) = {}
     /\ Len(wire.v) = NFields(typ)
     /\ ~WellTyped(typ, wire.v)) => IsFieldTypeMismatch(out)

-----------------------------------------------------------------------------
(* C6 *)

\* C6: ImageType::try_from of an Integer outside 0..7, above 7 or negative,
\* returns the invalid-tag error, an ordinary error value.
InvalidTagIsAnError ==
    (/\ op = "ImageType::try_from"
     /\ arg[1].t = "Integer"
     /\ arg[1].v \notin 0..7) => IsInvalidEnumTag(res)

-----------------------------------------------------------------------------
(* C7 *)

-----------------------------------------------------------------------------
(* C8 *)

\* C8: inverse of a quaternion whose dot product with itself is zero, and
\* sgn of one whose length is zero, fail: neither returns a quaternion.
ZeroNormFails ==
    /\ (op = "inverse" /\ dot(arg[1], arg[1]) = F(0)) => res.kind = "Err"
    /\ (op = "sgn" /\ get_length(arg[1]) = F(0)) => res.kind = "Err"

-----------------------------------------------------------------------------
(* C9 *)

\* the Hamilton product a * b, a on the left
HamiltonProduct(a, b) ==
    Quat(FSub(FSub(FSub(FMul(a.w_val, b.w_val), FMul(a.x_val, b.x_val)),
                   FMul(a.y_val, b.y_val)), FMul(a.z_val, b.z_val)),
         FSub(FAdd(FAdd(FMul(a.x_val, b.w_val), FMul(a.w_val, b.x_val)),
                   FMul(a.y_val, b.z_val)), FMul(a.z_val, b.y_val)),
         FSub(FAdd(FAdd(FMul(a.y_val, b.w_val), FMul(a.w_val, b.y_val)),
                   FMul(a.z_val, b.x_val)), FMul(a.x_val, b.z_val)),
         FSub(FAdd(FAdd(FMul(a.z_val, b.w_val), FMul(a.w_val, b.z_val)),
                   FMul(a.x_val, b.y_val)), FMul(a.y_val, b.x_val)))

\* w^2 + x^2 + y^2 + z^2
NormSq(a) ==
    FAdd(FAdd(FAdd(FMul(a.w_val, a.w_val), FMul(a.x_val, a.x_val)),
              FMul(a.y_val, a.y_val)), FMul(a.z_val, a.z_val))

\* the conjugate of a over its squared norm
Reciprocal(a) ==
    Quat(FDiv(a.w_val, NormSq(a)), FDiv(FNeg(a.x_val), NormSq(a)),
         FDiv(FNeg(a.y_val), NormSq(a)), FDiv(FNeg(a.z_val), NormSq(a)))

IdentityRotor == Quat(F(1), F(0), F(0), F(0))

\* C9: for finite components, q.rotate(rotor) is rotor * q * inverse(rotor)
\* when the rotor's length is 1, and fails as not normalized for a rotor of
\* any other length, such as (2, 0, 0, 0); with the rotor (1, 0, 0, 0) it
\* is q.
RotateContract ==
    op = "rotate" =>
        /\ NormSq(arg[2]) = F(1) =>
              res = Ok(HamiltonProduct(HamiltonProduct(arg[2], arg[1]),
                                       Reciprocal(arg[2])))
        /\ NormSq(arg[2]) # F(1) => IsQuaternionNotNormalized(res)
        /\ arg[2] = IdentityRotor => res = Ok(arg[1])

\* a quaternion has been turned by a third of a turn into another one
RotateWitness ==
    /\ op = "rotate"
    /\ arg[2] = Quat(Frac(1, 2), Frac(1, 2), Frac(1, 2), Frac(1, 2))
    /\ res.kind = "Ok"
    /\ res.val # arg[1]

-----------------------------------------------------------------------------
(* C10 *)

\* C10: the quaternion of a vector v is (w, x, y, z) = (0, v.x, v.y, v.z).
VectorIsImaginaryPart ==
    op = "Quaternionr::from(Vector3r)" =>
        res = Ret(Quat(F(0), arg[1].x_val, arg[1].y_val, arg[1].z_val))

-----------------------------------------------------------------------------
(* C11 *)

UnitI == Quat(F(0), F(1), F(0), F(0))
UnitJ == Quat(F(0), F(0), F(1), F(0))
UnitK == Quat(F(0), F(0), F(0), F(1))

\* C11: a * b is the Hamilton product with a on the left,
\* w = aw*bw - ax*bx - ay*by - az*bz, x = ax*bw + aw*bx + ay*bz - az*by,
\* y = ay*bw + aw*by + az*bx - ax*bz, z = az*bw + aw*bz + ax*by - ay*bx,
\* whatever the components; and it is not commutative: i * j is k, which
\* j * i is not.
MulIsHamiltonProduct ==
    op = "mul" =>
        /\ res = Ret(HamiltonProduct(arg[1], arg[2]))
        /\ arg = <<UnitI, UnitJ>> =>
              /\ res.val = UnitK
              /\ mul(arg[2], arg[1]) # res.val

\* i and j have been multiplied, and their product the other way round is
\* another quaternion
MulOrderMatters ==
    /\ op = "mul"
    /\ arg = <<UnitI, UnitJ>>
    /\ res.val # mul(UnitJ, UnitI)

-----------------------------------------------------------------------------
(* C12 *)

\* the types of the spatial values
Spatial == {"Vector3r", "Quaternionr", "Pose"}

\* every component of the value v of type ty is NaN
RECURSIVE IsUnknown(_, _)
IsUnknown(ty, v) ==
    IF ty = "f64" THEN IsNaN(v)
    ELSE \A f \in FieldNames(ty) : IsUnknown(TypeOf(ty, f), v[f])

\* C12: the default of a Pose, and of a vector or quaternion that is a
\* field of a record's default, is NaN in every component, not zero; so is
\* the part of a Pose that Pose::new is not given.
DefaultIsUnknown ==
    /\ op = "default" =>
          /\ arg[1] \in Spatial => IsUnknown(arg[1], res.val)
          /\ \A f \in FieldNames(arg[1]) :
                TypeOf(arg[1], f) \in Spatial =>
                    IsUnknown(TypeOf(arg[1], f), res.val[f])
    /\ op = "Pose::new" =>
          /\ ~arg[1].some => IsUnknown("Vector3r", res.val.position)
          /\ ~arg[2].some => IsUnknown("Quaternionr", res.val.orientation)

-----------------------------------------------------------------------------
(* C13 *)

IsNotAMap(r) ==
    r.kind = "Err"
    /\ r.val.msg = "Value should be a Map to be converted to {}"

\* a Value that is not a Map has been decoded into a struct with the derive
DecodedOther == typ \in Derives /\ wire.t # "Map" /\ out # NoResult

\* C13: decoding a Value that is not a Map (Nil, Boolean, Integer, F64,
\* String, Binary, Array) into a record fails as not a Map, naming the
\* record type, for every record type with a decoder.
NonMapIsRejected ==
    DecodedOther => IsNotAMap(out) /\ out.val.what = <<typ>>

\* an Array has been decoded into a Pose and rejected
NonMapWitness ==
    /\ DecodedOther
    /\ typ = "Pose"
    /\ wire.t = "Array"
    /\ IsNotAMap(out)

-----------------------------------------------------------------------------
(* C14 *)

\* the entry of m keyed by f
EntryOf(m, f) == m[CHOOSE i \in 1..Len(m) : m[i].k = VStr(f)]

\* the keys of m are the declared fields of T, each once, in some order
IsPermuted(T, m) ==
    /\ Len(m) = NFields(T)
    /\ \A f \in FieldNames(T) : \E i \in 1..Len(m) : m[i].k = VStr(f)

\* the entries of m in the declared order of T
InDeclaredOrder(T, m) == [i \in 1..NFields(T) |-> EntryOf(m, FieldName(T, i))]

\* C14: a Map that has the entries of the encoding of a record in any order
\* decodes, and to the record its entries in declared order decode to: each
\* field has the value of the entry keyed by its name, wherever that entry
\* is and whichever entries were removed before it was looked up.
DecodeByName ==
    (DecodedMap /\ IsPermuted(typ, wire.v) /\ WellTyped(typ, wire.v)) =>
        /\ out.kind = "Ok"
        /\ out = TryFrom(typ, VMap(InDeclaredOrder(typ, wire.v)))
        /\ \A f \in FieldNames(typ) :
              Ok(out.val[f]) = TryInto(TypeOf(typ, f), EntryOf(wire.v, f).v)

\* the encoding of a Quaternionr with four different components has been
\* decoded with its entries in the opposite order
DecodeByNameWitness ==
    /\ DecodedMap
    /\ typ = "Quaternionr"
    /\ out.kind = "Ok"
    /\ \A i \in 1..4 : wire.v[i] = FromStruct(typ, out.val).v[5 - i]
    /\ \A i, j \in 1..4 : wire.v[i].v = wire.v[j].v => i = j

-----------------------------------------------------------------------------
(* C15 *)

\* v is a Map whose keys are the declared fields of T, each once, and whose
\* values all convert to the types of their fields
IsExact(T, v) == v.t = "Map" /\ IsPermuted(T, v.v) /\ WellTyped(T, v.v)

\* C15: decode returns a record if and only if the input is a Map whose
\* keys are exactly the declared field names, each once, and every value
\* converts to its field's type; the record then has in each field the
\* converted value of its entry; in every other case decode returns an
\* error.
AllOrNothing ==
    (typ \in Derives /\ out # NoResult) =>
        /\ out.kind = "Ok" <=> IsExact(typ, wire)
        /\ out.kind = "Ok" =>
              \A f \in FieldNames(typ) :
                  Ok(out.val[f]) = TryInto(TypeOf(typ, f), EntryOf(wire.v, f).v)
        /\ ~IsExact(typ, wire) => out.kind = "Err"

=============================================================================
